---- MODULE Spec2Model ----
(***************************************************************************)
(* A model of the catalog service of mercari-build-training (Go).          *)
(*                                                                         *)
(* The SQLite-backed server: POST /items (addItem) stores the uploaded     *)
(* image under its content address (saveImage) and then records the item   *)
(* in one database transaction (saveItem, checkCategoryId).  Requests run  *)
(* concurrently, one goroutine per request; every system call and every    *)
(* SQL statement of a request is one step of its process.                  *)
(*                                                                         *)
(* The database is SQLite opened through database/sql with the default     *)
(* DSN: transactions are DEFERRED and the journal is a rollback journal.   *)
(* A transaction takes the SHARED lock at its first SELECT, the RESERVED   *)
(* lock at its first write (refused at once with "database is locked"      *)
(* while another connection holds it) and needs every other SHARED lock    *)
(* gone to commit.  Readers outside a transaction see committed rows only. *)
(*                                                                         *)
(* Spec is the behaviour of concurrent POST /items requests on an empty    *)
(* database.  SpecSearch is GET /search on a database of two items.        *)
(* SpecJson is the JSON-file server (go/app/main.go) under concurrent      *)
(* POST /items requests, SpecJsonSeq the same with the requests sent one   *)
(* after the other.                                                        *)
(* Definitions marked "faulty variant" are not part of the model: each is  *)
(* the definition after it with one fault seeded, used to show that a      *)
(* property depends on the definition.                                     *)
(***************************************************************************)
EXTENDS Integers, Sequences, FiniteSets, TLC

\* ------------------------------------------------------------------ bounds

\* Number of concurrent POST /items requests.
NumProcs == 2

Procs == 1..NumProcs

\* Longest item name and longest keyword of the search specification.
MaxStrLen == 2

\* ------------------------------------------------------------------ inputs

\* Strings are sequences of one-character strings; byte payloads are
\* sequences of numbers.  The two payloads share a prefix, so the bytes a
\* failed write of one leaves may as well come from the other.
\* The requests a client sends: two items of one category with the same
\* image, and an item of another category with another image.
Requests ==
    { [name |-> <<"a">>, category |-> "fashion", image |-> <<1, 2>>],
      [name |-> <<"b", "a">>, category |-> "fashion", image |-> <<1, 2>>],
      [name |-> <<"a">>, category |-> "book", image |-> <<1, 3>>] }

Payloads == {r.image : r \in Requests}

\* ------------------------------------------------------------ pure helpers

HexDigits == <<"0", "1", "2", "3", "4", "5", "6", "7",
               "8", "9", "a", "b", "c", "d", "e", "f">>

\* A stand-in for sha256.Sum256: a one-byte digest, folded over the bytes.
\* It is free of collisions on Payloads, as SHA-256 is taken to be.
RECURSIVE Fold256(_, _)
Fold256(h, bytes) ==
    IF bytes = <<>> THEN h
    ELSE Fold256((h * 31 + Head(bytes)) % 256, Tail(bytes))

Sum256(bytes) == Fold256(7, bytes)

\* fmt.Sprintf("%x", hash): two lower-case hex digits per digest byte.
Hex(h) == <<HexDigits[(h \div 16) + 1], HexDigits[(h % 16) + 1]>>

JpgSuffix == <<".", "j", "p", "g">>

\* fileName := fmt.Sprintf("%x.jpg", hash)
\* Faulty variant: the name does not depend on the bytes.
FileNameFixed(bytes) == <<"0", "0">> \o JpgSuffix
FileNameOf(bytes) == Hex(Sum256(bytes)) \o JpgSuffix

\* const ImgDir = "images"
ImgDir == <<"i", "m", "a", "g", "e", "s">>

\* The placeholder image: images/default.jpg, a file of the repository that
\* no request writes, and its bytes (they are no payload of a request).
DefaultJpg == <<"d", "e", "f", "a", "u", "l", "t">> \o JpgSuffix
DefaultBytes == <<0>>
InitFiles == [fn \in {DefaultJpg} |-> DefaultBytes]

\* What a write of data at offset 0 leaves in a file that held old.
Overlay(old, data) ==
    IF Len(data) >= Len(old) THEN data
    ELSE data \o SubSeq(old, Len(data) + 1, Len(old))

\* The strict prefixes of data: what a failed write may have written.
StrictPrefixes(data) == {SubSeq(data, 1, n) : n \in 0..(Len(data) - 1)}

Max(S) == CHOOSE x \in S : \A y \in S : y <= x

\* The rowid SQLite gives the next row of a table (result.LastInsertId()).
NextRowId(rows) ==
    IF rows = <<>> THEN 1 ELSE Max({rows[i].id : i \in 1..Len(rows)}) + 1

\* ------------------------------------------------------------------- state

VARIABLES
    pc,          \* where each request stands in addItem
    name,        \* c.FormValue("name")
    category,    \* c.FormValue("category")
    source,      \* the bytes read from the uploaded image
    fileName,    \* what saveImage returned
    files,       \* ./images: file name -> content, for the files that exist
    categories,  \* committed rows of table categories, in rowid order
    items,       \* committed rows of table items, in rowid order
    lock,        \* the SQLite lock each request's connection holds
    txCats,      \* category rows a request's open transaction has written
    txItems,     \* item rows a request's open transaction has written
    scanErr,     \* err of rows.Scan in checkCategoryId
    categoryId,  \* categoryId in saveItem
    ret,         \* the error saveItem returned
    itemResult,  \* LastInsertId of the result of the item INSERT
    rollbackErr, \* what the deferred tx.Rollback() returned
    resp,        \* the HTTP response of addItem
    keyword,     \* c.QueryParam("keyword") of the last GET /search
    searchResp,  \* the HTTP response of the last GET /search
    itemsJson,   \* the file items.json of the JSON-file server
    jsonItems,   \* items in saveItem of the JSON-file server
    added        \* history: the items of the calls answered 200, in order

vars == <<pc, name, category, source, fileName, files, categories, items,
          lock, txCats, txItems, scanErr, categoryId, ret, itemResult,
          rollbackErr, resp, keyword, searchResp, itemsJson, jsonItems,
          added>>

reqVars == <<name, category, source>>
dbVars == <<categories, items, lock, txCats, txItems, scanErr, categoryId,
            ret, itemResult, rollbackErr>>
searchVars == <<keyword, searchResp>>
jsonVars == <<itemsJson, jsonItems, added>>
sqlVars == <<categories, items, lock, txCats, txItems, scanErr, categoryId,
             itemResult, rollbackErr>>

\* A file that does not exist.
NoFile == [exists |-> FALSE, data |-> <<>>]

NoName == <<>>
NoErr == [step |-> "none", cause |-> "none"]
Nil == [step |-> "nil", cause |-> "nil"]
NoResp == [code |-> 0, message |-> <<>>]

Init ==
    /\ pc = [p \in Procs |-> "idle"]
    /\ name = [p \in Procs |-> NoName]
    /\ category = [p \in Procs |-> ""]
    /\ source = [p \in Procs |-> <<>>]
    /\ fileName = [p \in Procs |-> NoName]
    /\ files = InitFiles
    /\ categories = <<>>
    /\ items = <<>>
    /\ lock = [p \in Procs |-> "none"]
    /\ txCats = [p \in Procs |-> <<>>]
    /\ txItems = [p \in Procs |-> <<>>]
    /\ scanErr = [p \in Procs |-> "none"]
    /\ categoryId = [p \in Procs |-> 0]
    /\ ret = [p \in Procs |-> NoErr]
    /\ itemResult = [p \in Procs |-> 0]
    /\ rollbackErr = [p \in Procs |-> "none"]
    /\ resp = [p \in Procs |-> NoResp]
    /\ keyword = <<>>
    /\ searchResp = NoResp
    /\ itemsJson = NoFile
    /\ jsonItems = [p \in Procs |-> <<>>]
    /\ added = <<>>

\* echo.NewHTTPError(code, Response{Message: message}) / c.JSON(code, res)
Respond(p, code, message) ==
    /\ resp' = [resp EXCEPT ![p] = [code |-> code, message |-> message]]
    /\ pc' = [pc EXCEPT ![p] = "done"]

\* ---------------------------------------------------------------- addItem

\* addItem, form data: name, category and the image part; a request
\* without an image part is answered 400.
AddItemReceive(p) ==
    /\ pc[p] = "idle"
    /\ \E r \in Requests :
          /\ name' = [name EXCEPT ![p] = r.name]
          /\ category' = [category EXCEPT ![p] = r.category]
          /\ \/ /\ source' = [source EXCEPT ![p] = r.image]
                /\ pc' = [pc EXCEPT ![p] = "prepare"]
                /\ UNCHANGED resp
             \/ /\ UNCHANGED source
                /\ Respond(p, 400, <<"Error while retrieving image">>)
    /\ UNCHANGED <<searchVars, jsonVars, fileName, files, dbVars>>

\* addItem, saveImage returned an error: the answer is 500 and saveItem is
\* not called.
\* Faulty variant: the error is not looked at and addItem goes on.
SaveImageFailedIgnored(p) ==
    /\ pc' = [pc EXCEPT ![p] = "begin"]
    /\ UNCHANGED resp
SaveImageFailed(p) ==
    Respond(p, 500, <<"Error while hashing and saving image">>)

\* saveImage up to the file name: image.Open, io.ReadAll, sha256.Sum256,
\* os.MkdirAll, fmt.Sprintf.  Open, ReadAll and MkdirAll may fail.
SaveImagePrepare(p) ==
    /\ pc[p] = "prepare"
    /\ \/ /\ fileName' = [fileName EXCEPT ![p] = FileNameOf(source[p])]
          /\ pc' = [pc EXCEPT ![p] = "create"]
          /\ UNCHANGED resp
       \/ /\ SaveImageFailed(p)
          /\ UNCHANGED fileName
    /\ UNCHANGED <<searchVars, jsonVars, reqVars, files, dbVars>>

\* The file as it is after open(O_CREATE|O_TRUNC): it exists and is empty.
Truncated(fs, fn) ==
    [f \in (DOMAIN fs) \cup {fn} |-> IF f = fn THEN <<>> ELSE fs[f]]

\* os.Create(imagePath): creates the file or truncates the one there.
SaveImageCreate(p) ==
    /\ pc[p] = "create"
    /\ \/ /\ files' = Truncated(files, fileName[p])
          /\ pc' = [pc EXCEPT ![p] = "wopen"]
          /\ UNCHANGED resp
       \/ /\ SaveImageFailed(p)
          /\ UNCHANGED files
    /\ UNCHANGED <<searchVars, jsonVars, reqVars, fileName, dbVars>>

\* os.WriteFile, first half: OpenFile(O_WRONLY|O_CREATE|O_TRUNC).
SaveImageWriteOpen(p) ==
    /\ pc[p] = "wopen"
    /\ \/ /\ files' = Truncated(files, fileName[p])
          /\ pc' = [pc EXCEPT ![p] = "wdata"]
          /\ UNCHANGED resp
       \/ /\ SaveImageFailed(p)
          /\ UNCHANGED files
    /\ UNCHANGED <<searchVars, jsonVars, reqVars, fileName, dbVars>>

\* The file after data was written at offset 0.
\* Faulty variant: the file is opened with O_APPEND.
WrittenAppend(fs, fn, data) == [fs EXCEPT ![fn] = @ \o data]
Written(fs, fn, data) == [fs EXCEPT ![fn] = Overlay(fs[fn], data)]

\* os.WriteFile, second half: Write and Close.  A failed write leaves a
\* strict prefix of the data written.
SaveImageWriteData(p) ==
    /\ pc[p] = "wdata"
    /\ \/ /\ files' = Written(files, fileName[p], source[p])
          /\ pc' = [pc EXCEPT ![p] = "begin"]
          /\ UNCHANGED resp
       \/ /\ \E part \in StrictPrefixes(source[p]) :
                files' = Written(files, fileName[p], part)
          /\ SaveImageFailed(p)
    /\ UNCHANGED <<searchVars, jsonVars, reqVars, fileName, dbVars>>

\* --------------------------------------------------------------- saveItem

SaveItemFailed(p) ==
    Respond(p, 500, <<"Error while saving item information">>)

Err(step, cause) == [step |-> step, cause |-> cause]

\* tx, err := db.DB.Begin().  On an error saveItem returns before the
\* rollback is deferred.
SaveItemBegin(p) ==
    /\ pc[p] = "begin"
    /\ \/ /\ pc' = [pc EXCEPT ![p] = "check"]
          /\ UNCHANGED <<ret, resp>>
       \/ /\ ret' = [ret EXCEPT ![p] = Err("begin", "io")]
          /\ SaveItemFailed(p)
    /\ UNCHANGED <<searchVars, jsonVars, reqVars, itemResult, fileName, files,
                   categories, items, lock, txCats, txItems, scanErr,
                   categoryId, rollbackErr>>

\* The rows of a table a transaction sees: the committed ones and its own.
VisibleCategories(p) == categories \o txCats[p]
VisibleItems(p) == items \o txItems[p]

\* The lock a connection holds after a SELECT inside its transaction
\* (tx.QueryRow): SHARED, kept until the transaction ends.
\* Faulty variant: the SELECT runs outside the transaction (db.DB.QueryRow)
\* and leaves no lock behind.
LockAfterSelectNoTx(p) == lock
LockAfterSelect(p) ==
    [lock EXCEPT ![p] = IF @ = "none" THEN "shared" ELSE @]

\* The RESERVED lock is free for p: no other connection holds it.
CanReserve(p) == \A q \in Procs \ {p} : lock[q] # "reserved"

\* COMMIT takes the EXCLUSIVE lock: no other connection holds any lock.
CanCommit(p) == \A q \in Procs \ {p} : lock[q] = "none"

\* The rows SELECT id FROM categories WHERE name = ? finds, by position.
\* Faulty variant: the query never finds a row.
CategoryHitsNone(p) == {}
CategoryHits(p) ==
    {i \in 1..Len(VisibleCategories(p)) :
        VisibleCategories(p)[i].name = category[p]}

\* checkCategoryId, the lookup: tx.QueryRow(findCategoryId, category) and
\* rows.Scan(&categoryId), which takes a row the query found.
CheckCategoryLookup(p) ==
    /\ pc[p] = "check"
    /\ LET hits == CategoryHits(p)
       IN \/ /\ hits # {}
             /\ \E i \in hits :
                   categoryId' = [categoryId EXCEPT
                                     ![p] = VisibleCategories(p)[i].id]
             /\ scanErr' = [scanErr EXCEPT ![p] = "nil"]
             /\ lock' = LockAfterSelect(p)
             /\ pc' = [pc EXCEPT ![p] = "insitem"]
             /\ UNCHANGED ret
          \/ /\ hits = {}
             /\ scanErr' = [scanErr EXCEPT ![p] = "ErrNoRows"]
             /\ lock' = LockAfterSelect(p)
             /\ pc' = [pc EXCEPT ![p] = "inscat"]
             /\ UNCHANGED <<categoryId, ret>>
          \/ /\ scanErr' = [scanErr EXCEPT ![p] = "other"]
             /\ ret' = [ret EXCEPT ![p] = Err("category", "io")]
             /\ pc' = [pc EXCEPT ![p] = "rollback"]
             /\ UNCHANGED <<categoryId, lock>>
    /\ UNCHANGED <<searchVars, jsonVars, reqVars, itemResult, fileName, files,
                   categories, items, txCats,
                   txItems, rollbackErr, resp>>

\* The category row INSERT INTO categories (name) values (?) writes.
NewCategoryRow(p) ==
    [id |-> NextRowId(VisibleCategories(p)), name |-> category[p]]

\* categoryId = int(newId), newId being result.LastInsertId().
\* Faulty variant: the new id is not assigned to categoryId.
InsertedCategoryIdUnset(p) == categoryId[p]
InsertedCategoryId(p) == NewCategoryRow(p).id

\* checkCategoryId, the branch err == sql.ErrNoRows: the INSERT and
\* result.LastInsertId().  The INSERT needs the RESERVED lock.
CheckCategoryInsert(p) ==
    /\ pc[p] = "inscat"
    /\ \/ /\ CanReserve(p)
          /\ txCats' = [txCats EXCEPT ![p] = Append(@, NewCategoryRow(p))]
          /\ categoryId' = [categoryId EXCEPT ![p] = InsertedCategoryId(p)]
          /\ lock' = [lock EXCEPT ![p] = "reserved"]
          /\ pc' = [pc EXCEPT ![p] = "insitem"]
          /\ UNCHANGED ret
       \/ /\ ~CanReserve(p)
          /\ ret' = [ret EXCEPT ![p] = Err("category", "locked")]
          /\ pc' = [pc EXCEPT ![p] = "rollback"]
          /\ UNCHANGED <<txCats, categoryId, lock>>
       \/ /\ ret' = [ret EXCEPT ![p] = Err("category", "io")]
          /\ pc' = [pc EXCEPT ![p] = "rollback"]
          /\ UNCHANGED <<txCats, categoryId, lock>>
    /\ UNCHANGED <<searchVars, jsonVars, reqVars, itemResult, fileName, files,
                   categories, items, txItems,
                   scanErr, rollbackErr, resp>>

\* The item row
\* INSERT INTO items (name, image_name, category_id) VALUES (?, ?, ?) writes.
\* Faulty variant: name and fileName are bound in the wrong order.
NewItemRowSwapped(p) ==
    [id |-> NextRowId(VisibleItems(p)), name |-> fileName[p],
     image_name |-> name[p], category_id |-> categoryId[p]]
NewItemRow(p) ==
    [id |-> NextRowId(VisibleItems(p)), name |-> name[p],
     image_name |-> fileName[p], category_id |-> categoryId[p]]

\* saveItem: tx.Exec(insertItem, name, fileName, categoryId).
SaveItemInsert(p) ==
    /\ pc[p] = "insitem"
    /\ \/ /\ CanReserve(p)
          /\ txItems' = [txItems EXCEPT ![p] = Append(@, NewItemRow(p))]
          /\ itemResult' = [itemResult EXCEPT ![p] = NewItemRow(p).id]
          /\ lock' = [lock EXCEPT ![p] = "reserved"]
          /\ pc' = [pc EXCEPT ![p] = "commit"]
          /\ UNCHANGED ret
       \/ /\ ~CanReserve(p)
          /\ ret' = [ret EXCEPT ![p] = Err("item", "locked")]
          /\ pc' = [pc EXCEPT ![p] = "rollback"]
          /\ UNCHANGED <<txItems, itemResult, lock>>
       \/ /\ ret' = [ret EXCEPT ![p] = Err("item", "io")]
          /\ pc' = [pc EXCEPT ![p] = "rollback"]
          /\ UNCHANGED <<txItems, itemResult, lock>>
    /\ UNCHANGED <<searchVars, jsonVars, reqVars, fileName, files,
                   categories, items, txCats,
                   scanErr, categoryId, rollbackErr, resp>>

\* The committed tables after p's transaction committed.
CommittedCategories(p) == categories \o txCats[p]
\* Faulty variant: the item rows of the transaction replace the table.
CommittedItemsReplaced(p) == txItems[p]
CommittedItems(p) == items \o txItems[p]

\* The transaction is over: its rows are applied or dropped, its lock freed.
EndTx(p) ==
    /\ txCats' = [txCats EXCEPT ![p] = <<>>]
    /\ txItems' = [txItems EXCEPT ![p] = <<>>]
    /\ lock' = [lock EXCEPT ![p] = "none"]

\* saveItem: tx.Commit().  COMMIT waits for the other connections' locks
\* until the busy timeout.  A COMMIT that fails (the timeout, or an I/O
\* error) ends the transaction too: the driver rolls it back before it
\* returns the error.
SaveItemCommit(p) ==
    /\ pc[p] = "commit"
    /\ \/ /\ CanCommit(p)
          /\ categories' = CommittedCategories(p)
          /\ items' = CommittedItems(p)
          /\ ret' = [ret EXCEPT ![p] = Nil]
       \/ /\ ~CanCommit(p)
          /\ ret' = [ret EXCEPT ![p] = Err("commit", "timeout")]
          /\ UNCHANGED <<categories, items>>
       \/ /\ ret' = [ret EXCEPT ![p] = Err("commit", "io")]
          /\ UNCHANGED <<categories, items>>
    /\ EndTx(p)
    /\ pc' = [pc EXCEPT ![p] = "rollback"]
    /\ UNCHANGED <<searchVars, jsonVars, reqVars, itemResult, fileName,
                   files, scanErr,
                   categoryId,
                   rollbackErr, resp>>

\* addItem's answer to what saveItem returned.
AddItemRespond(p) ==
    IF ret'[p] = Nil
    THEN Respond(p, 200, <<"item received: ", name[p]>>)
    ELSE SaveItemFailed(p)

\* Table categories after ROLLBACK: the transaction's rows are not in it.
\* Faulty variant: the rollback keeps the category rows.
RolledBackCategoriesKept(p) == categories \o txCats[p]
RolledBackCategories(p) == categories

\* What saveItem returns once the deferred function has run and Rollback
\* returned e: the error of the return statement (the deferred function
\* logs e and has no way to the result of saveItem).
\* Faulty variants: the result is the error of a Rollback that failed; the
\* result is the error of any Rollback that returned one.
ReturnedRollbackFailure(p, e) ==
    IF e = "failed" THEN Err("rollback", "io") ELSE ret[p]
ReturnedRollbackError(p, e) ==
    IF e = "ErrTxDone" THEN Err("rollback", "done") ELSE ret[p]
Returned(p, e) == ret[p]

\* The deferred tx.Rollback(), run on every return after Begin; its error
\* is logged only.  After Commit was called the transaction is done and
\* Rollback returns sql.ErrTxDone.  Then saveItem returns and addItem
\* answers.
SaveItemRollback(p) ==
    /\ pc[p] = "rollback"
    /\ \/ /\ ret[p].step \in {"nil", "commit"}
          /\ rollbackErr' = [rollbackErr EXCEPT ![p] = "ErrTxDone"]
       \/ /\ ret[p].step \notin {"nil", "commit"}
          /\ \E e \in {"nil", "failed"} :
                rollbackErr' = [rollbackErr EXCEPT ![p] = e]
    /\ ret' = [ret EXCEPT ![p] = Returned(p, rollbackErr'[p])]
    /\ categories' = RolledBackCategories(p)
    /\ EndTx(p)
    /\ AddItemRespond(p)
    /\ UNCHANGED <<searchVars, jsonVars, reqVars, itemResult, fileName,
                   files, items,
                   scanErr, categoryId>>

\* ------------------------------------------------------------ specification

Next ==
    \E p \in Procs :
       \/ AddItemReceive(p)
       \/ SaveImagePrepare(p)
       \/ SaveImageCreate(p)
       \/ SaveImageWriteOpen(p)
       \/ SaveImageWriteData(p)
       \/ SaveItemBegin(p)
       \/ CheckCategoryLookup(p)
       \/ CheckCategoryInsert(p)
       \/ SaveItemInsert(p)
       \/ SaveItemCommit(p)
       \/ SaveItemRollback(p)

Spec == Init /\ [][Next]_vars

\* ----------------------------------------------------------------- readers

\* The rows of items JOIN categories ON items.category_id = categories.id
\* for one item row.
\* Faulty variant: the join has no ON condition.
JoinItemCross(it, cats) ==
    [i \in 1..Len(cats) |->
        [name |-> it.name, category |-> cats[i].name,
         image_name |-> it.image_name]]
JoinItem(it, cats) ==
    LET match(c) == c.id = it.category_id
        hit == SelectSeq(cats, match)
    IN [i \in 1..Len(hit) |->
           [name |-> it.name, category |-> hit[i].name,
            image_name |-> it.image_name]]

\* The rows of items JOIN categories ON items.category_id = categories.id.
RECURSIVE Join(_, _)
Join(its, cats) ==
    IF its = <<>> THEN <<>>
    ELSE JoinItem(Head(its), cats) \o Join(Tail(its), cats)

\* getInfoById: the first row of the join WHERE items.id = ?, answered 200
\* with the item; without a row rows.Scan fails and the answer is 500.
getInfoById(itemId) ==
    LET isId(it) == it.id = itemId
        rows == Join(SelectSeq(items, isId), categories)
    IN IF rows = <<>>
       THEN [code |-> 500, message |-> <<"Error while searching item with ID">>]
       ELSE [code |-> 200, item |-> rows[1]]

\* getInfoById when the query itself fails: rows.Scan returns the error of
\* the query, and the handler answers it as it answers a missing row.
getInfoByIdQueryFailed ==
    [code |-> 500, message |-> <<"Error while searching item with ID">>]

\* The ids a client asks for: those of the rows there can be, and others.
ItemIds == 0..(NumProcs + 1)

\* path.Join(dir, elem) for an elem that holds no "/", as a parameter of
\* the route /image/:imageFilename does: the two are joined with "/" and
\* the result is cleaned, so an empty or "." elem leaves dir and ".." leaves
\* the directory above it.
PathJoin(dir, elem) ==
    IF elem \in {<<>>, <<".">>} THEN dir
    ELSE IF elem = <<".", ".">> THEN <<".">>
    ELSE dir \o <<"/">> \o elem

\* strings.HasSuffix(s, suffix)
\* Faulty variant: the suffix may stand anywhere in s.
HasSuffixAnywhere(s, suffix) ==
    \E i \in 1..(Len(s) - Len(suffix) + 1) :
       SubSeq(s, i, i + Len(suffix) - 1) = suffix
HasSuffix(s, suffix) ==
    /\ Len(s) >= Len(suffix)
    /\ SubSeq(s, Len(s) - Len(suffix) + 1, Len(s)) = suffix

\* The files of ./images a path names, and os.Stat(path) finding one.
FilesAt(path) == {fn \in DOMAIN files : PathJoin(ImgDir, fn) = path}
StatOk(path) == FilesAt(path) # {}

\* c.File(path): the bytes of the file, or echo's 404 when there is none.
File(path) ==
    LET at == FilesAt(path)
    IN IF at # {}
       THEN [code |-> 200, body |-> files[CHOOSE fn \in at : TRUE]]
       ELSE [code |-> 404, message |-> <<"Not Found">>]

\* getImg: GET /image/:imageFilename.
getImg(imageFilename) ==
    LET imgPath == PathJoin(ImgDir, imageFilename)
    IN IF ~HasSuffix(imgPath, JpgSuffix)
       THEN [code |-> 400, message |-> <<"Image path does not end with .jpg">>]
       ELSE IF ~StatOk(imgPath)
            THEN File(PathJoin(ImgDir, DefaultJpg))
            ELSE File(imgPath)

\* The references a client asks for: the names saveImage gives, the
\* placeholder, a name no file has, and names that do not end in ".jpg".
References ==
    {FileNameOf(b) : b \in Payloads}
       \cup {DefaultJpg, <<"0", "0">> \o JpgSuffix, JpgSuffix}
       \cup {Hex(Sum256(<<1, 2>>)), FileNameOf(<<1, 2>>) \o <<"x">>}
       \cup {<<>>, <<".", ".">>}

\* ------------------------------------------------------------------ search

\* The characters of names and keywords: letters of both cases and the two
\* characters LIKE reads as wildcards.
Alphabet == {"a", "A", "%", "_"}

Strings == UNION {[1..n -> Alphabet] : n \in 0..MaxStrLen}

\* LIKE compares ASCII letters without regard to case.
Lower(ch) == IF ch = "A" THEN "a" ELSE ch

\* str LIKE pat, as SQLite evaluates it: % matches any run of characters,
\* _ matches any one character, there is no escape character.
RECURSIVE Like(_, _)
Like(pat, str) ==
    IF pat = <<>> THEN str = <<>>
    ELSE IF Head(pat) = "%"
         THEN Like(Tail(pat), str) \/ (str # <<>> /\ Like(pat, Tail(str)))
    ELSE IF str = <<>> THEN FALSE
    ELSE IF Head(pat) = "_" THEN Like(Tail(pat), Tail(str))
    ELSE Lower(Head(pat)) = Lower(Head(str)) /\ Like(Tail(pat), Tail(str))

\* key := "%" + keyword + "%"
SearchKey(kw) == <<"%">> \o kw \o <<"%">>

\* ScanRowsToItems: the name and the category name of each row.
ScanRowsToItems(rows) ==
    [i \in 1..Len(rows) |->
        [name |-> rows[i].name, category |-> rows[i].category]]

\* readItems: the rows of selectAllItems, scanned.
readItems == ScanRowsToItems(Join(items, categories))

\* getItems: GET /items, answered 200 with what readItems returned.
getItems == [code |-> 200, items |-> readItems]

\* searchItems, the rows of the query: the join WHERE items.name LIKE ?.
SearchRows(kw) ==
    LET like(it) == Like(SearchKey(kw), it.name)
    IN ScanRowsToItems(Join(SelectSeq(items, like), categories))

\* searchItems: GET /search?keyword=kw, answered 200 with the items found,
\* or 500 when the query or the scan fails.
searchItems(kw) ==
    /\ keyword' = kw
    /\ \/ searchResp' = [code |-> 200, items |-> SearchRows(kw)]
       \/ searchResp' =
             [code |-> 500, message |-> <<"Error while searching with keyword">>]
       \/ searchResp' =
             [code |-> 500, message |-> <<"Error while scanning rows to items">>]
    /\ UNCHANGED <<pc, reqVars, fileName, files, dbVars, resp, jsonVars>>

\* The image files two creates have stored.
SearchFiles ==
    [fn \in {DefaultJpg, FileNameOf(<<1, 2>>), FileNameOf(<<1, 3>>)} |->
        IF fn = DefaultJpg THEN DefaultBytes
        ELSE IF fn = FileNameOf(<<1, 2>>) THEN <<1, 2>> ELSE <<1, 3>>]

\* The table items after two creates of one category.
SearchTable(n1, n2) ==
    <<[id |-> 1, name |-> n1, image_name |-> FileNameOf(<<1, 2>>),
       category_id |-> 1],
      [id |-> 2, name |-> n2, image_name |-> FileNameOf(<<1, 3>>),
       category_id |-> 1]>>

InitSearch ==
    /\ pc = [p \in Procs |-> "idle"]
    /\ name = [p \in Procs |-> NoName]
    /\ category = [p \in Procs |-> ""]
    /\ source = [p \in Procs |-> <<>>]
    /\ fileName = [p \in Procs |-> NoName]
    /\ files = SearchFiles
    /\ categories = <<[id |-> 1, name |-> "fashion"]>>
    /\ \E n1, n2 \in Strings : items = SearchTable(n1, n2)
    /\ lock = [p \in Procs |-> "none"]
    /\ txCats = [p \in Procs |-> <<>>]
    /\ txItems = [p \in Procs |-> <<>>]
    /\ scanErr = [p \in Procs |-> "none"]
    /\ categoryId = [p \in Procs |-> 0]
    /\ ret = [p \in Procs |-> NoErr]
    /\ itemResult = [p \in Procs |-> 0]
    /\ rollbackErr = [p \in Procs |-> "none"]
    /\ resp = [p \in Procs |-> NoResp]
    /\ keyword = <<>>
    /\ searchResp = NoResp
    /\ itemsJson = NoFile
    /\ jsonItems = [p \in Procs |-> <<>>]
    /\ added = <<>>

NextSearch == \E kw \in Strings : searchItems(kw)

SpecSearch == InitSearch /\ [][NextSearch]_vars

\* ------------------------------------------------- the JSON-file server
\*
\* The first server of the repository (go/app/main.go) keeps the items in
\* the file items.json: saveItem reads the whole file, appends the item and
\* writes the whole file back, with no lock.  An item has no id but its
\* place in the list.

\* The text of a file is a sequence of tokens, one per brace, item head,
\* character of a name, category and image name, so that texts of items
\* with longer names are longer.
Token(kind, val) == [kind |-> kind, val |-> val]

\* Item{Name: name, Category: category, ImageName: fileName}
JsonItem(n, c, fn) == [name |-> n, category |-> c, image_name |-> fn]

MarshalItem(it) ==
    <<Token("item", <<>>)>>
       \o [i \in 1..Len(it.name) |-> Token("name", <<it.name[i]>>)]
       \o <<Token("category", <<it.category>>),
            Token("image_name", it.image_name)>>

RECURSIVE MarshalItems(_)
MarshalItems(list) ==
    IF list = <<>> THEN <<>>
    ELSE MarshalItem(Head(list)) \o MarshalItems(Tail(list))

\* json.Marshal(items)
Marshal(list) ==
    <<Token("{", <<>>)>> \o MarshalItems(list) \o <<Token("}", <<>>)>>

\* What readItems returns on an error: Items{} and the error.
ReadFailed == [ok |-> FALSE, items |-> <<>>]

\* The number of name tokens data begins with.
RECURSIVE NameLen(_)
NameLen(data) ==
    IF data = <<>> \/ Head(data).kind # "name" THEN 0
    ELSE 1 + NameLen(Tail(data))

\* json.Unmarshal, the list between the braces.
RECURSIVE UnmarshalItems(_)
UnmarshalItems(data) ==
    IF data = <<>> THEN [ok |-> TRUE, items |-> <<>>]
    ELSE IF Head(data).kind # "item" THEN ReadFailed
    ELSE LET rest == Tail(data)
             n == NameLen(rest)
         IN IF \/ Len(rest) < n + 2
               \/ rest[n + 1].kind # "category"
               \/ rest[n + 2].kind # "image_name"
            THEN ReadFailed
            ELSE LET more == UnmarshalItems(SubSeq(rest, n + 3, Len(rest)))
                     it == JsonItem([i \in 1..n |-> rest[i].val[1]],
                                    rest[n + 1].val[1], rest[n + 2].val)
                 IN IF more.ok
                    THEN [ok |-> TRUE, items |-> <<it>> \o more.items]
                    ELSE ReadFailed

\* json.Unmarshal(data, &items): an error for a text that is not one whole
\* object, an empty or a cut one and one with text after its end included.
Unmarshal(data) ==
    IF \/ Len(data) < 2
       \/ data[1].kind # "{"
       \/ data[Len(data)].kind # "}"
    THEN ReadFailed
    ELSE UnmarshalItems(SubSeq(data, 2, Len(data) - 1))

\* readItems(ItemsPath): os.ReadFile, then json.Unmarshal.
JsonReadItems ==
    IF ~itemsJson.exists THEN ReadFailed ELSE Unmarshal(itemsJson.data)

\* echo's answer to an error a handler returns that is no HTTPError.
InternalServerError == [code |-> 500, message |-> <<"Internal Server Error">>]

\* getInfo: GET /items/:id, the item at place itemId of the list.
\* Faulty variant: the places are counted from 0.
getInfoFromZero(itemId) ==
    LET read == JsonReadItems
    IN IF ~read.ok THEN InternalServerError
       ELSE IF itemId < 0 \/ itemId >= Len(read.items)
            THEN InternalServerError
            ELSE [code |-> 200, item |-> read.items[itemId + 1]]
getInfo(itemId) ==
    LET read == JsonReadItems
    IN IF ~read.ok THEN InternalServerError
       ELSE IF itemId <= 0 \/ itemId > Len(read.items)
            THEN InternalServerError
            ELSE [code |-> 200, item |-> read.items[itemId]]

\* addItem, form data: name, category and the image part; the error of a
\* request without an image part is returned to echo.
JsonAddItemReceive(p) ==
    /\ pc[p] = "idle"
    /\ \E r \in Requests :
          /\ name' = [name EXCEPT ![p] = r.name]
          /\ category' = [category EXCEPT ![p] = r.category]
          /\ \/ /\ source' = [source EXCEPT ![p] = r.image]
                /\ pc' = [pc EXCEPT ![p] = "prepare"]
                /\ UNCHANGED resp
             \/ /\ UNCHANGED source
                /\ Respond(p, 500, InternalServerError.message)
    /\ UNCHANGED <<searchVars, jsonVars, fileName, files, dbVars>>

\* addItem, saveImage returned an error: 500 with the text of the error.
JsonSaveImageFailed(p) == Respond(p, 500, <<"saveImage: ", "error">>)

\* saveImage is the function of the SQLite server, step for step.
JsonSaveImagePrepare(p) ==
    /\ pc[p] = "prepare"
    /\ \/ /\ fileName' = [fileName EXCEPT ![p] = FileNameOf(source[p])]
          /\ pc' = [pc EXCEPT ![p] = "create"]
          /\ UNCHANGED resp
       \/ /\ JsonSaveImageFailed(p)
          /\ UNCHANGED fileName
    /\ UNCHANGED <<searchVars, jsonVars, reqVars, files, dbVars>>

JsonSaveImageCreate(p) ==
    /\ pc[p] = "create"
    /\ \/ /\ files' = Truncated(files, fileName[p])
          /\ pc' = [pc EXCEPT ![p] = "wopen"]
          /\ UNCHANGED resp
       \/ /\ JsonSaveImageFailed(p)
          /\ UNCHANGED files
    /\ UNCHANGED <<searchVars, jsonVars, reqVars, fileName, dbVars>>

JsonSaveImageWriteOpen(p) ==
    /\ pc[p] = "wopen"
    /\ \/ /\ files' = Truncated(files, fileName[p])
          /\ pc' = [pc EXCEPT ![p] = "wdata"]
          /\ UNCHANGED resp
       \/ /\ JsonSaveImageFailed(p)
          /\ UNCHANGED files
    /\ UNCHANGED <<searchVars, jsonVars, reqVars, fileName, dbVars>>

JsonSaveImageWriteData(p) ==
    /\ pc[p] = "wdata"
    /\ \/ /\ files' = Written(files, fileName[p], source[p])
          /\ pc' = [pc EXCEPT ![p] = "jread"]
          /\ UNCHANGED resp
       \/ /\ \E part \in StrictPrefixes(source[p]) :
                files' = Written(files, fileName[p], part)
          /\ JsonSaveImageFailed(p)
    /\ UNCHANGED <<searchVars, jsonVars, reqVars, fileName, dbVars>>

\* addItem, saveItem returned an error: 500 with the text of the error.
JsonSaveItemFailed(p, step) ==
    /\ ret' = [ret EXCEPT ![p] = Err(step, "io")]
    /\ Respond(p, 500, <<"error while ", step, " file">>)

\* saveItem up to newData: readItems(ItemsPath), which fails when the file
\* cannot be read or is no JSON text, then append and json.Marshal.
JsonSaveItemRead(p) ==
    /\ pc[p] = "jread"
    /\ \/ /\ JsonReadItems.ok
          /\ jsonItems' =
                [jsonItems EXCEPT
                    ![p] = Append(JsonReadItems.items,
                                  JsonItem(name[p], category[p], fileName[p]))]
          /\ pc' = [pc EXCEPT ![p] = "jopen"]
          /\ UNCHANGED <<ret, resp>>
       \/ /\ JsonSaveItemFailed(p, "reading or unmarshaling")
          /\ UNCHANGED jsonItems
    /\ UNCHANGED <<searchVars, reqVars, fileName, files, sqlVars, itemsJson,
                   added>>

\* os.WriteFile(ItemsPath, newData, 0644), first half:
\* OpenFile(O_WRONLY|O_CREATE|O_TRUNC) leaves the file empty.
JsonSaveItemWriteOpen(p) ==
    /\ pc[p] = "jopen"
    /\ \/ /\ itemsJson' = [exists |-> TRUE, data |-> <<>>]
          /\ pc' = [pc EXCEPT ![p] = "jdata"]
          /\ UNCHANGED <<ret, resp>>
       \/ /\ JsonSaveItemFailed(p, "writing")
          /\ UNCHANGED itemsJson
    /\ UNCHANGED <<searchVars, reqVars, fileName, files, sqlVars, jsonItems,
                   added>>

\* os.WriteFile, second half: Write at offset 0 and Close; a failed write
\* leaves a strict prefix of newData written.  Then saveItem returns and
\* addItem answers.
JsonSaveItemWriteData(p) ==
    /\ pc[p] = "jdata"
    /\ LET newData == Marshal(jsonItems[p])
           written(d) == [itemsJson EXCEPT !.data = Overlay(@, d)]
       IN \/ /\ itemsJson' = written(newData)
             /\ ret' = [ret EXCEPT ![p] = Nil]
             /\ Respond(p, 200, <<"item received: ", name[p]>>)
             /\ added' = Append(added,
                                JsonItem(name[p], category[p], fileName[p]))
          \/ /\ \E part \in StrictPrefixes(newData) :
                   itemsJson' = written(part)
             /\ JsonSaveItemFailed(p, "writing")
             /\ UNCHANGED added
    /\ UNCHANGED <<searchVars, reqVars, fileName, files, sqlVars, jsonItems>>

\* items.json at the start: not there, or there with an empty list.
InitJson ==
    /\ pc = [p \in Procs |-> "idle"]
    /\ name = [p \in Procs |-> NoName]
    /\ category = [p \in Procs |-> ""]
    /\ source = [p \in Procs |-> <<>>]
    /\ fileName = [p \in Procs |-> NoName]
    /\ files = InitFiles
    /\ categories = <<>>
    /\ items = <<>>
    /\ lock = [p \in Procs |-> "none"]
    /\ txCats = [p \in Procs |-> <<>>]
    /\ txItems = [p \in Procs |-> <<>>]
    /\ scanErr = [p \in Procs |-> "none"]
    /\ categoryId = [p \in Procs |-> 0]
    /\ ret = [p \in Procs |-> NoErr]
    /\ itemResult = [p \in Procs |-> 0]
    /\ rollbackErr = [p \in Procs |-> "none"]
    /\ resp = [p \in Procs |-> NoResp]
    /\ keyword = <<>>
    /\ searchResp = NoResp
    /\ itemsJson \in {NoFile, [exists |-> TRUE, data |-> Marshal(<<>>)]}
    /\ jsonItems = [p \in Procs |-> <<>>]
    /\ added = <<>>

\* The steps of a request after it was received.
JsonStep(p) ==
    \/ JsonSaveImagePrepare(p)
    \/ JsonSaveImageCreate(p)
    \/ JsonSaveImageWriteOpen(p)
    \/ JsonSaveImageWriteData(p)
    \/ JsonSaveItemRead(p)
    \/ JsonSaveItemWriteOpen(p)
    \/ JsonSaveItemWriteData(p)

\* Requests handled concurrently, one goroutine each.
NextJson == \E p \in Procs : JsonAddItemReceive(p) \/ JsonStep(p)

SpecJson == InitJson /\ [][NextJson]_vars

\* No request is being handled.
JsonQuiet == \A p \in Procs : pc[p] \in {"idle", "done"}

\* Requests sent one after the other: each is sent when the one before it
\* was answered.
NextJsonSeq ==
    \E p \in Procs : (JsonQuiet /\ JsonAddItemReceive(p)) \/ JsonStep(p)

SpecJsonSeq == InitJson /\ [][NextJsonSeq]_vars

\* The ids a client asks getInfo for: the places there can be, and others.
JsonIds == (0 - 1)..(NumProcs + 1)

\* -------------------------------------------------------------------- claims

Done(p) == pc[p] = "done"
Succeeded(p) == Done(p) /\ ret[p] = Nil
CategoryRowsNamed(rows, c) == {i \in 1..Len(rows) : rows[i].name = c}

\* C1: a create call that does not commit writes nothing readers can see:
\* the committed tables change only in the step of a Commit that succeeds,
\* and every other step of every call (a failed Commit and the rollback
\* included) leaves both tables as they were.
C1_FailedCreateWritesNothing ==
    [][(\E p \in Procs : pc[p] = "commit" /\ ret'[p] = Nil)
       \/ UNCHANGED <<categories, items>>]_vars

\* C1 witness: a call that inserted a new category row in its transaction
\* and then failed has returned, and no row of that name is committed.
C1_Witness ==
    \E p \in Procs :
       /\ Done(p)
       /\ scanErr[p] = "ErrNoRows"
       /\ ret[p].step \in {"item", "commit"}
       /\ CategoryRowsNamed(categories, category[p]) = {}

\* C2: no committed state holds two category rows of one name.
C2_CategoryNameUnique ==
    \A i, j \in 1..Len(categories) :
       categories[i].name = categories[j].name => i = j

\* C2 witness: two calls raced for one new category name (neither lookup
\* found it) and the name is committed.
C2_Witness ==
    \E p, q \in Procs :
       /\ p # q
       /\ category[p] = category[q]
       /\ scanErr[p] = "ErrNoRows" /\ scanErr[q] = "ErrNoRows"
       /\ Done(p) /\ Done(q)
       /\ CategoryRowsNamed(categories, category[p]) # {}

\* C3: every committed item row's category_id is the id of a committed
\* category row.
C3_ReferentialIntegrity ==
    \A i \in 1..Len(items) :
       \E j \in 1..Len(categories) : categories[j].id = items[i].category_id

\* C3 witness: items of two categories are committed.
C3_Witness ==
    \E i, j \in 1..Len(items) : items[i].category_id # items[j].category_id

\* A call whose checkCategoryId returned an id and whose transaction is
\* open or committed.
Resolved(p) == pc[p] \in {"insitem", "commit"} \/ ret[p] = Nil

\* C4: after checkCategoryId(c) returned, exactly one category row named c
\* exists (among the rows the caller sees) and its id is the id returned;
\* so two calls for one name that both take effect return the same id and
\* the second adds no row.
C4_ResolveIdempotent ==
    \A p \in Procs :
       Resolved(p) =>
          LET rows == VisibleCategories(p)
              hits == CategoryRowsNamed(rows, category[p])
          IN /\ Cardinality(hits) = 1
             /\ \A i \in hits : rows[i].id = categoryId[p]

\* C4 witness: two creates with one category name succeeded one after the
\* other (the second found the row) and one category row is committed.
C4_Witness ==
    \E p, q \in Procs :
       /\ p # q
       /\ Succeeded(p) /\ Succeeded(q)
       /\ category[p] = category[q]
       /\ scanErr[p] = "ErrNoRows" /\ scanErr[q] = "nil"
       /\ categoryId[p] = categoryId[q]
       /\ Len(categories) = 1
       /\ Len(items) = 2

\* A call that met no I/O error and no busy timeout.
NoFault(p) == ret[p].cause \notin {"io", "timeout"}

\* C5: two concurrent creates that raced to insert one new category name
\* (both lookups missed), with no I/O error and no timeout, both succeed
\* and their items reference the same category id.
C5_RaceLoserRecovers ==
    \A p, q \in Procs :
       (/\ p # q
        /\ category[p] = category[q]
        /\ scanErr[p] = "ErrNoRows" /\ scanErr[q] = "ErrNoRows"
        /\ Done(p) /\ Done(q)
        /\ NoFault(p) /\ NoFault(q))
       => /\ ret[p] = Nil /\ ret[q] = Nil
          /\ categoryId[p] = categoryId[q]

\* The item getInfoById answers for the inputs of call p.
Found(p) ==
    [code |-> 200,
     item |-> [name |-> name[p], category |-> category[p],
               image_name |-> FileNameOf(source[p])]]

\* The item ids addItem's response carries: Response has Message only.
ReturnedIds(p) == IF "id" \in DOMAIN resp[p] THEN {resp[p].id} ELSE {}

PutOk(p) ==
    \/ pc[p] \in {"begin", "check", "inscat", "insitem", "commit", "rollback"}
    \/ Done(p) /\ ret[p] # NoErr

\* C7: a saveImage of bytes b that succeeds returns the reference every
\* earlier successful saveImage of b returned, a function of b alone, and
\* leaves exactly b stored under it.
C7_PutIdempotent ==
    [][\A p \in Procs :
          (pc[p] = "wdata" /\ pc'[p] = "begin") =>
             /\ fileName'[p] = FileNameOf(source[p])
             /\ files'[fileName'[p]] = source[p]
             /\ \A q \in Procs :
                   (PutOk(q) /\ source[q] = source[p])
                      => fileName[q] = fileName'[p]]_vars

\* C7 witness: two saveImage calls of the same bytes succeeded and the
\* file holds the bytes.
C7_Witness ==
    \E p, q \in Procs :
       /\ p # q
       /\ PutOk(p) /\ PutOk(q)
       /\ source[p] = source[q]
       /\ fileName[p] = fileName[q]
       /\ files[fileName[p]] = source[p]

\* The bytes b are stored whole under their content address.
Stored(b) ==
    /\ FileNameOf(b) \in DOMAIN files
    /\ files[FileNameOf(b)] = b

\* C8: once b is stored under its address, every later step (of a later
\* saveImage of b too) leaves b stored there.
C8_StoredStaysStored ==
    [][\A b \in Payloads : Stored(b) => Stored(b)']_vars

\* No saveImage is writing file fn, and none failed after it had the name.
Quiescent(fn) ==
    \A q \in Procs :
       fileName[q] = fn =>
          /\ pc[q] \notin {"wopen", "wdata"}
          /\ ~(Done(q) /\ resp[q].code = 500 /\ ret[q] = NoErr)

\* C9: when the saveImage calls on a file have all returned without error,
\* the file holds the bytes of each of them; and a step of a call changes
\* no file but the one named after its own bytes.
C9_WritersDoNotInterfere ==
    /\ [](\A p \in Procs :
             (PutOk(p) /\ Quiescent(fileName[p]))
                => files[fileName[p]] = source[p])
    /\ [][\A p \in Procs :
             pc'[p] # pc[p] =>
                \A fn \in DOMAIN files :
                   fn # fileName[p]
                      => fn \in DOMAIN files' /\ files'[fn] = files[fn]]_vars

\* C9 witness: two calls with different bytes both stored theirs.
C9_Witness ==
    \E p, q \in Procs :
       /\ PutOk(p) /\ PutOk(q)
       /\ source[p] # source[q]
       /\ Quiescent(fileName[p]) /\ Quiescent(fileName[q])
       /\ files[fileName[p]] = source[p]
       /\ files[fileName[q]] = source[q]

\* sub occurs in str, letters compared without regard to case and every
\* other character, % and _ too, standing for itself.
RECURSIVE IsPrefixOf(_, _)
IsPrefixOf(sub, str) ==
    IF sub = <<>> THEN TRUE
    ELSE IF str = <<>> THEN FALSE
    ELSE Lower(Head(sub)) = Lower(Head(str))
            /\ IsPrefixOf(Tail(sub), Tail(str))

RECURSIVE Contains(_, _)
Contains(str, sub) ==
    IsPrefixOf(sub, str) \/ (str # <<>> /\ Contains(Tail(str), sub))

\* The items whose name contains kw, each with its category name.
ItemsContaining(kw) ==
    LET has(it) == Contains(it.name, kw)
    IN ScanRowsToItems(Join(SelectSeq(items, has), categories))

\* C10: a search that is answered returns exactly the items whose name
\* contains the keyword as a literal substring, each with its category
\* name, for every keyword; the empty keyword returns every item.
C10_SearchIsSubstring ==
    searchResp.code = 200 =>
       /\ searchResp.items = ItemsContaining(keyword)
       /\ keyword = <<>> => Len(searchResp.items) = Len(items)

\* No item row has this id.
Missing(itemId) == \A i \in 1..Len(items) : items[i].id # itemId

\* C11: getInfoById on an id with no item row fails with NotFound, a
\* client fault (a 4xx answer) that differs from the answer given when the
\* query fails.
C11_MissingIdIsNotFound ==
    \A itemId \in ItemIds :
       Missing(itemId) =>
          /\ getInfoById(itemId).code \in 400..499
          /\ getInfoById(itemId) # getInfoByIdQueryFailed

\* The last four characters of the reference are ".jpg".
EndsInJpg(ref) ==
    /\ Len(ref) >= 4
    /\ <<ref[Len(ref) - 3], ref[Len(ref) - 2], ref[Len(ref) - 1],
         ref[Len(ref)]>> = <<".", "j", "p", "g">>

\* C12: getImg answers BadRequest exactly for the references that do not
\* end in ".jpg"; a reference that ends in ".jpg" is never answered with an
\* error: it is answered with the bytes stored under it when a file of
\* that name exists and with the bytes of the placeholder when none does.
C12_GetImgOutcome ==
    \A ref \in References :
       IF EndsInJpg(ref)
       THEN getImg(ref) =
               [code |-> 200,
                body |-> IF ref \in DOMAIN files THEN files[ref]
                         ELSE DefaultBytes]
       ELSE getImg(ref).code = 400

\* C12 witness: a stored image is served with its bytes, a reference with
\* no file with the placeholder, and a name without ".jpg" is rejected.
C12_Witness ==
    \E p \in Procs :
       /\ PutOk(p)
       /\ getImg(fileName[p]) = [code |-> 200, body |-> source[p]]
       /\ <<"0", "0">> \o JpgSuffix \notin DOMAIN files
       /\ getImg(<<"0", "0">> \o JpgSuffix).body = DefaultBytes
       /\ getImg(Hex(Sum256(source[p]))).code = 400

\* Every row of old is in new, at its place and with its field values.
Kept(old, new) ==
    /\ Len(new) >= Len(old)
    /\ \A i \in 1..Len(old) : new[i] = old[i]

\* C13: committed rows are append-only: every step of every call, those of
\* failed and rolled-back creates included, leaves each committed category
\* row and each committed item row in its table with the same field
\* values.
C13_RowsAppendOnly ==
    [][Kept(categories, categories') /\ Kept(items, items')]_vars

\* C13 witness: a create committed its rows, another one failed inside its
\* transaction and was rolled back, and the rows of the first are there.
C13_Witness ==
    \E p, q \in Procs :
       /\ Succeeded(p)
       /\ Done(q) /\ ret[q].step \in {"category", "item", "commit"}
       /\ Len(items) = 1 /\ items[1].name = name[p]
       /\ Len(categories) = 1 /\ categories[1].name = category[p]

\* How many entries of seq are e.
Count(seq, e) == Cardinality({i \in 1..Len(seq) : seq[i] = e})

\* The entries an item row stands for: its name with the name of each
\* category row of its category_id.
EntriesOf(it) ==
    {[name |-> it.name, category |-> categories[j].name] :
        j \in {k \in 1..Len(categories) : categories[k].id = it.category_id}}

\* C14: getItems returns one entry for each committed item row, made of
\* the item's name and the name of its category, and no other entry: the
\* join drops no item and duplicates none (the order is left open).
C14_ListIsExact ==
    LET list == getItems.items
        rows == 1..Len(items)
        all == {list[i] : i \in 1..Len(list)}
                  \cup UNION {EntriesOf(items[i]) : i \in rows}
    IN /\ Len(list) = Len(items)
       /\ \A i \in rows : Cardinality(EntriesOf(items[i])) = 1
       /\ \A e \in all :
             Count(list, e)
                = Cardinality({i \in rows : e \in EntriesOf(items[i])})

\* C14 witness: two items of two categories are committed, and the list
\* has an entry for each.
C14_Witness ==
    /\ Len(items) = 2 /\ Len(categories) = 2
    /\ items[1].category_id # items[2].category_id
    /\ Len(getItems.items) = 2
    /\ getItems.items[1] # getItems.items[2]

\* The deferred Rollback of call p runs in this step and returns an error.
RollbackFails(p) ==
    /\ pc[p] = "rollback" /\ pc'[p] = "done"
    /\ rollbackErr'[p] \in {"failed", "ErrTxDone"}

\* C15: the error of the rollback never masks the cause: when a create
\* has failed at a step and the rollback then fails too, saveItem returns
\* the error of that step and addItem answers the failure of the save.
C15_RollbackDoesNotMask ==
    [][\A p \in Procs :
          (RollbackFails(p) /\ ret[p] # Nil) =>
             /\ ret[p].step \in {"category", "item", "commit"}
             /\ ret'[p] = ret[p]
             /\ resp'[p].code = 500]_vars

\* C15 witness: the item INSERT of a call failed, its rollback failed too,
\* and the call returned the error of the INSERT.
C15_Witness ==
    \E p \in Procs :
       /\ Done(p)
       /\ rollbackErr[p] = "failed"
       /\ ret[p].step = "item"
       /\ resp[p].code = 500

\* saveImage returned an error to call p, and addItem has answered it.
PutFailed(p) ==
    /\ Done(p)
    /\ resp[p] =
          [code |-> 500, message |-> <<"Error while hashing and saving image">>]

\* Call p has entered the transaction of saveItem, or has been in it.
InSaveItem(p) ==
    \/ pc[p] \in {"check", "inscat", "insitem", "commit", "rollback"}
    \/ ret[p] # NoErr

\* C16: addItem stores the image before it begins the transaction of the
\* item: the step that takes a call to saveItem leaves the whole image
\* under its name, and a call inside saveItem has a file of its name; so
\* (a) a call whose saveImage failed never enters saveItem, and no step of
\* it changes a table; (b) every committed item row has a file under its
\* image_name from the state on in which the row is committed.
C16_ImageBeforeItem ==
    /\ [](/\ \A p \in Procs :
               InSaveItem(p) =>
                  /\ fileName[p] = FileNameOf(source[p])
                  /\ fileName[p] \in DOMAIN files
          /\ \A p \in Procs :
               PutFailed(p) =>
                  /\ ~InSaveItem(p)
                  /\ txCats[p] = <<>> /\ txItems[p] = <<>>
                  /\ itemResult[p] = 0
          /\ \A i \in 1..Len(items) : items[i].image_name \in DOMAIN files)
    /\ [][\A p \in Procs :
             /\ (pc[p] # "begin" /\ pc'[p] = "begin")
                   => /\ fileName'[p] \in DOMAIN files'
                      /\ files'[fileName'[p]] = source[p]
             /\ (pc'[p] # pc[p] /\ PutFailed(p)')
                   => UNCHANGED <<categories, items>>]_vars

\* C16 witness: the saveImage of one call failed and the call wrote no
\* row, and the item row of another call is committed with its image
\* stored.
C16_Witness ==
    \E p, q \in Procs :
       /\ PutFailed(p)
       /\ Succeeded(q)
       /\ Len(items) = 1
       /\ items[1].image_name = fileName[q]
       /\ files[fileName[q]] = source[q]

\* Every call of the JSON-file server answered so far was answered 200.
JsonAllOk == \A p \in Procs : Done(p) => resp[p].code = 200

\* C17: in the JSON-file server, after n addItem calls made one after the
\* other and all answered 200, getInfo(k) returns the item of the k-th
\* call for 1 <= k <= n and an error, no item, for k <= 0 and for k > n.
C17_PositionalLookup ==
    (JsonQuiet /\ JsonAllOk) =>
       \A k \in JsonIds :
          IF 1 <= k /\ k <= Len(added)
          THEN getInfo(k) = [code |-> 200, item |-> added[k]]
          ELSE getInfo(k).code # 200

\* C17 witness: two calls with different items were answered 200, one
\* after the other, and getInfo returns the item of each at its place.
C17_Witness ==
    /\ JsonQuiet /\ JsonAllOk
    /\ Len(added) = 2
    /\ added[1] # added[2]
    /\ getInfo(1) = [code |-> 200, item |-> added[1]]
    /\ getInfo(2) = [code |-> 200, item |-> added[2]]
    /\ getInfo(0).code = 500 /\ getInfo(3).code = 500

\* C18: in the JSON-file server no update is lost when addItem calls run
\* concurrently: once the calls have returned, all of them answered 200,
\* items.json holds a list with the item of every one of them (as many
\* times as calls added it), so the item getInfo returned for a call is
\* still there.
C18_NoLostUpdate ==
    (JsonQuiet /\ JsonAllOk) =>
       \A k \in 1..Len(added) :
          /\ JsonReadItems.ok
          /\ Count(JsonReadItems.items, added[k]) >= Count(added, added[k])

\* C19: the deferred Rollback of saveItem runs on every return after Begin,
\* the return after a Commit that succeeded included; it leaves the
\* committed rows as they are and saveItem's result as the return
\* statement set it: after a Commit that succeeded Rollback reports an
\* error (the transaction is done), saveItem returns nil all the same and
\* addItem answers 200.
C19_DeferredRollbackIsHarmless ==
    /\ [](\A p \in Procs :
             (Done(p) /\ ret[p].step \notin {"none", "begin"})
                => rollbackErr[p] # "none")
    /\ [][\A p \in Procs :
             (pc[p] = "rollback" /\ pc'[p] # pc[p]) =>
                /\ UNCHANGED <<categories, items>>
                /\ ret'[p] = ret[p]
                /\ ret[p] = Nil =>
                      /\ rollbackErr'[p] = "ErrTxDone"
                      /\ resp'[p].code = 200]_vars

\* C19 witness: a call committed its item row, its deferred Rollback
\* reported that the transaction is done, and the call was answered 200
\* with the row still committed.
C19_Witness ==
    \E p \in Procs :
       /\ Succeeded(p)
       /\ rollbackErr[p] = "ErrTxDone"
       /\ resp[p].code = 200
       /\ \E i \in 1..Len(items) : items[i].id = itemResult[p]

====
